---- MODULE Spec2Model ----
(***************************************************************************)
(* Model of day10b (src/day10b/src/main.rs): a stack-based bracket matcher *)
(* that classifies lines as corrupted or incomplete, scores the completion *)
(* of every non-corrupted line and reports the middle score.               *)
(*                                                                         *)
(* Characters are one-character strings, a line and a completion string    *)
(* are sequences of characters, an error message is a string.  An i64 is   *)
(* the tuple of its four 16-bit limbs, most significant first (two's       *)
(* complement), so that the arithmetic keeps its 64-bit width.             *)
(***************************************************************************)
EXTENDS Integers, Sequences, FiniteSets, TLC

\* ------------------------------------------------------------- bounds ----
\* Longest line of the single-line runs (all nine characters).
MaxLineLen == 4
\* Most lines, and longest line, of the multi-line runs.
MaxLines == 2
MaxMainLineLen == 3
\* Completion strings handed to calculate_score: any characters in the
\* first MaxFreeLen places, one repeated character after them.
MaxFreeLen == 3
MaxCompletionLen == 28
\* Score collections handed to find_median_score.
MaxScores == 4
MaxScoreVal == 3

\* --------------------------------------------------------- characters ----
Brackets == {"Round", "Square", "Curly", "Angle"}
OpeningChars == {"(", "[", "{", "<"}
ClosingChars == {")", "]", "}", ">"}
\* "a" stands for every character that is not one of the eight brackets.
Chars == OpeningChars \cup ClosingChars \cup {"a"}
\* The multi-line runs draw their characters from two bracket kinds.
MainChars == {"(", ")", "[", "]"}

Last(s) == s[Len(s)]
Front(s) == SubSeq(s, 1, Len(s) - 1)

\* ---------------------------------------------------------------- i64 ----
LimbBase == 2^16
SignLimb == 2^15
I64Zero == <<0, 0, 0, 0>>

\* The i64 of a small non-negative integer literal (below 2^31).
ToI64(n) == <<0, 0, n \div LimbBase, n % LimbBase>>

IsNegative(x) == x[1] >= SignLimb

\* Unsigned comparison of two limb tuples.
LimbsLess(x, y) ==
    \E i \in 1..4 : x[i] < y[i] /\ \A j \in 1..(i - 1) : x[j] = y[j]

\* i64's Ord: a < b.
I64Less(a, b) ==
    IF IsNegative(a) # IsNegative(b) THEN IsNegative(a) ELSE LimbsLess(a, b)

\* x * m + d for a non-negative x and small m, d: the wrapped 64-bit result
\* and whether the exact result left the i64 range.
MulAdd(x, m, d) ==
    LET t4 == x[4] * m + d
        t3 == x[3] * m + (t4 \div LimbBase)
        t2 == x[2] * m + (t3 \div LimbBase)
        t1 == x[1] * m + (t2 \div LimbBase)
    IN  [val |-> <<t1 % LimbBase, t2 % LimbBase, t3 % LimbBase, t4 % LimbBase>>,
         overflow |-> t1 >= SignLimb]

\* ------------------------------------------------------- ParserState ----
\* ParserState::new
new == <<>>

\* ParserState::push
push(stack, bracket) == Append(stack, bracket)

\* pop written with Vec::last: a matched bracket stays on the stack.
pop_peek(stack, closing) ==
    IF stack = <<>>
    THEN [stack |-> stack, ret |-> "None"]
    ELSE [stack |-> stack,
          ret |-> IF Last(stack) = closing THEN Last(stack) ELSE "None"]

\* ParserState::pop: Vec::pop removes the last element whatever its kind;
\* the guard only decides what is returned.
pop(stack, closing) ==
    IF stack = <<>>
    THEN [stack |-> stack, ret |-> "None"]
    ELSE LET opening == Last(stack)
         IN  [stack |-> Front(stack),
              ret |-> IF opening = closing THEN opening ELSE "None"]

ClosingCharOf(bracket) ==
    CASE bracket = "Round" -> ")"
      [] bracket = "Square" -> "]"
      [] bracket = "Curly" -> "}"
      [] bracket = "Angle" -> ">"

\* completion_string without .rev(): outermost bracket first.
completion_string_forward(stack) ==
    [i \in 1..Len(stack) |->
        CASE stack[i] = "Round" -> ")"
          [] stack[i] = "Square" -> "]"
          [] stack[i] = "Curly" -> "}"
          [] stack[i] = "Angle" -> ">"]

\* ParserState::completion_string: self.stack.iter().rev()
RECURSIVE completion_string(_)
completion_string(stack) ==
    IF stack = <<>>
    THEN <<>>
    ELSE <<ClosingCharOf(Last(stack))>> \o completion_string(Front(stack))

\* ----------------------------------------------------- calculate_score ----
\* The values counted from 0 instead of 1.
CharValueFromZero(ch) ==
    CASE ch = ")" -> 0
      [] ch = "]" -> 1
      [] ch = "}" -> 2
      [] ch = ">" -> 3

\* match ch { ')' => 1, ']' => 2, '}' => 3, '>' => 4, .. }
CharValue(ch) ==
    CASE ch = ")" -> 1
      [] ch = "]" -> 2
      [] ch = "}" -> 3
      [] ch = ">" -> 4

\* The turn with the two statements swapped: score += value; score *= 5.
ScoreStepAddFirst(score, ch, overflow_checks) ==
    LET add == MulAdd(score, 1, CharValue(ch))
        mul == MulAdd(add.val, 5, 0)
    IN  IF overflow_checks /\ (add.overflow \/ mul.overflow)
        THEN [score |-> score, fault |-> "attempt to multiply with overflow"]
        ELSE [score |-> mul.val, fault |-> "none"]

\* One turn of the loop of calculate_score: score *= 5; score += value.
\* With overflow checks (debug builds) an overflowing operation panics,
\* without them (release builds) it wraps.  Under overflow checks the total
\* is never negative, which is all MulAdd's overflow flag is used for.
ScoreStep(score, ch, overflow_checks) ==
    LET mul == MulAdd(score, 5, 0)
    IN  IF overflow_checks /\ mul.overflow
        THEN [score |-> score, fault |-> "attempt to multiply with overflow"]
        ELSE IF ch \notin ClosingChars
        THEN [score |-> mul.val, fault |-> "Unexpected character in completion string"]
        ELSE LET add == MulAdd(mul.val, 1, CharValue(ch))
             IN  IF overflow_checks /\ add.overflow
                 THEN [score |-> mul.val, fault |-> "attempt to add with overflow"]
                 ELSE [score |-> add.val, fault |-> "none"]

RECURSIVE ScoreFrom(_, _, _)
ScoreFrom(score, completion, overflow_checks) ==
    IF completion = <<>>
    THEN [score |-> score, fault |-> "none"]
    ELSE LET r == ScoreStep(score, Head(completion), overflow_checks)
         IN  IF r.fault # "none"
             THEN r
             ELSE ScoreFrom(r.score, Tail(completion), overflow_checks)

calculate_score(completion, overflow_checks) ==
    ScoreFrom(I64Zero, completion, overflow_checks)

\* ------------------------------------------------------------ handlers ----
handle_opening_bracket(stack, ch) ==
    CASE ch = "(" -> push(stack, "Round")
      [] ch = "[" -> push(stack, "Square")
      [] ch = "{" -> push(stack, "Curly")
      [] ch = "<" -> push(stack, "Angle")
      [] OTHER -> stack

BracketOfClosing(ch) ==
    CASE ch = ")" -> "Round"
      [] ch = "]" -> "Square"
      [] ch = "}" -> "Curly"
      [] ch = ">" -> "Angle"

\* handle_closing_bracket reading `expected` after the pop instead of before.
handle_closing_bracket_late(stack, ch) ==
    IF ch \in ClosingChars
    THEN IF stack = <<>>
         THEN [stack |-> stack,
               result |-> "Expected opening bracket, but found " \o ch \o " instead."]
         ELSE LET popped == pop(stack, BracketOfClosing(ch))
              IN  IF popped.ret # "None"
                  THEN [stack |-> popped.stack, result |-> "Ok"]
                  ELSE IF popped.stack = <<>>
                  THEN [stack |-> popped.stack,
                        result |-> "Expected opening bracket, but found "
                                    \o ch \o " instead."]
                  ELSE [stack |-> popped.stack,
                        result |-> "Expected " \o ClosingCharOf(Last(popped.stack))
                                    \o ", but found " \o ch \o " instead."]
    ELSE [stack |-> stack, result |-> "Ok"]

\* handle_closing_bracket: the stack it leaves and Ok or the message of Err.
handle_closing_bracket(stack, ch) ==
    IF ch \in ClosingChars
    THEN IF stack = <<>>
         THEN [stack |-> stack,
               result |-> "Expected opening bracket, but found " \o ch \o " instead."]
         ELSE LET expected == ClosingCharOf(Last(stack))
                  popped == pop(stack, BracketOfClosing(ch))
              IN  IF popped.ret = "None"
                  THEN [stack |-> popped.stack,
                        result |-> "Expected " \o expected \o ", but found "
                                    \o ch \o " instead."]
                  ELSE [stack |-> popped.stack, result |-> "Ok"]
    ELSE [stack |-> stack, result |-> "Ok"]

\* ---------------------------------------------------- find_median_score ----
\* scores.sort()
RECURSIVE Insert(_, _)
Insert(sorted, x) ==
    IF sorted = <<>>
    THEN <<x>>
    ELSE IF I64Less(x, Head(sorted))
         THEN <<x>> \o sorted
         ELSE <<Head(sorted)>> \o Insert(Tail(sorted), x)

\* The sort left out.
sort_skipped(scores) == scores

RECURSIVE sort(_)
sort(scores) ==
    IF scores = <<>> THEN <<>> ELSE Insert(sort(Front(scores)), Last(scores))

\* The middle index rounded down from the last index: (len - 1) / 2.
middle_index_lower(scores) ==
    IF scores = <<>> THEN 0 ELSE (Len(scores) - 1) \div 2

\* let middle_index = scores.len() / 2  (0-based)
middle_index(scores) == Len(scores) \div 2

\* find_median_score guarding the index: 0 for an empty collection.
find_median_score_guarded(scores) ==
    LET sorted == sort(scores)
        i == middle_index(sorted)
    IN  [scores |-> sorted,
         ret |-> IF i < Len(sorted) THEN sorted[i + 1] ELSE I64Zero,
         fault |-> "none"]

\* find_median_score: the sorted vector it leaves, and the element it returns
\* or the panic of indexing past the end.
find_median_score(scores) ==
    LET sorted == sort(scores)
        i == middle_index(sorted)
    IN  IF i < Len(sorted)
        THEN [scores |-> sorted, ret |-> sorted[i + 1], fault |-> "none"]
        ELSE [scores |-> sorted, ret |-> I64Zero, fault |-> "index out of bounds"]

\* ================================================================ state ====
VARIABLES
    pc,              \* where the run is: "loop", "scan", "score", "returned",
                     \* "median", "done", "panic"
    overflow_checks, \* whether the build checks integer overflow
    nLines,          \* number of lines of the input
    lineNo,          \* lines taken from the input so far
    lineLen,         \* number of characters of the current line
    line,            \* characters of the current line handled so far
    before,          \* before[i]: the stack as it was before line[i] was handled
    stack,           \* state.stack
    corrupted,       \* main's flag of the current line
    err,             \* the message printed for the current line, "" if none
    completion,      \* the completion string (in calculate_score: the part consumed)
    score,           \* calculate_score's running total
    exceededAt,      \* the turn of calculate_score whose exact result first
                     \* left the i64 range, 0 if none did
    exceededOp,      \* "mul" or "add": the operation that did, "" if none
    scores,          \* the score collection
    input,           \* the collection as it was handed to find_median_score
    expect,          \* per finished line: "corrupted" or the score its text calls for
    middle_score,    \* the reported middle score
    fault            \* the panic message, "none" if the run has not panicked

vars == <<pc, overflow_checks, nLines, lineNo, lineLen, line, before, stack,
          corrupted, err, completion, score, exceededAt, exceededOp, scores,
          input, expect, middle_score, fault>>

lineVars == <<lineLen, line, before, stack, corrupted, err>>
scoreVars == <<score, exceededAt, exceededOp>>

\* ------------------------------------------- what a line's text calls for ----
\* Written from the bracket grammar, not from the stack machine: adjacent
\* matching pairs are cancelled until none is left.
Matching == {<<"(", ")">>, <<"[", "]">>, <<"{", "}">>, <<"<", ">">>}

OnlyBrackets(text) ==
    SelectSeq(text, LAMBDA ch : ch \in OpeningChars \cup ClosingChars)

CancelAt(s, i) == SubSeq(s, 1, i - 1) \o SubSeq(s, i + 2, Len(s))

RECURSIVE Cancel(_)
Cancel(s) ==
    LET pairs == {i \in 1..(Len(s) - 1) : <<s[i], s[i + 1]>> \in Matching}
    IN  IF pairs = {}
        THEN s
        ELSE Cancel(CancelAt(s, CHOOSE i \in pairs : \A j \in pairs : i <= j))

Residue(text) == Cancel(OnlyBrackets(text))

TextCorrupted(text) == \E i \in 1..Len(Residue(text)) : Residue(text)[i] \in ClosingChars

OpeningValue(ch) ==
    CASE ch = "(" -> 1
      [] ch = "[" -> 2
      [] ch = "{" -> 3
      [] ch = "<" -> 4

RECURSIVE Power5(_)
Power5(n) == IF n = 0 THEN 1 ELSE 5 * Power5(n - 1)

RECURSIVE SumOver(_, _)
SumOver(f, S) ==
    IF S = {} THEN 0 ELSE LET i == CHOOSE i \in S : TRUE IN f[i] + SumOver(f, S \ {i})

\* The score of the brackets a text leaves open: the bracket opened j-th
\* (outermost first) is closed last but j - 1, so it weighs 5^(j-1).
TextScore(text) ==
    LET r == Residue(text)
    IN  SumOver([j \in 1..Len(r) |-> OpeningValue(r[j]) * Power5(j - 1)], 1..Len(r))

TextVerdict(text) ==
    IF TextCorrupted(text) THEN "corrupted" ELSE ToI64(TextScore(text))

\* ================================================================= main ====
\* The loop with the parser state created once, outside it.
StartLineSharedState(maxLen) ==
    /\ pc = "loop"
    /\ lineNo < nLines
    /\ lineNo' = lineNo + 1
    /\ lineLen' \in 0..maxLen
    /\ line' = <<>>
    /\ before' = <<>>
    /\ corrupted' = FALSE
    /\ err' = ""
    /\ pc' = "scan"
    /\ UNCHANGED <<stack, overflow_checks, nLines, completion, scoreVars, scores,
                   input, expect, middle_score, fault>>

\* for line in lines { let mut state = ParserState::new(); let mut corrupted = false;
StartLine(maxLen) ==
    /\ pc = "loop"
    /\ lineNo < nLines
    /\ lineNo' = lineNo + 1
    /\ lineLen' \in 0..maxLen
    /\ line' = <<>>
    /\ before' = <<>>
    /\ stack' = new
    /\ corrupted' = FALSE
    /\ err' = ""
    /\ pc' = "scan"
    /\ UNCHANGED <<overflow_checks, nLines, completion, scoreVars, scores, input,
                   expect, middle_score, fault>>

\* for ch in line.chars() { match handle_closing_bracket(&mut state, ch) { ... } }
HandleChar(alphabet) ==
    /\ pc = "scan"
    /\ ~corrupted
    /\ Len(line) < lineLen
    /\ \E ch \in alphabet :
        LET r == handle_closing_bracket(stack, ch)
        IN  /\ line' = Append(line, ch)
            /\ before' = Append(before, stack)
            /\ IF r.result = "Ok"
               THEN /\ stack' = handle_opening_bracket(r.stack, ch)
                    /\ UNCHANGED <<corrupted, err>>
               ELSE /\ stack' = r.stack
                    /\ err' = r.result
                    /\ corrupted' = TRUE
    /\ UNCHANGED <<pc, overflow_checks, nLines, lineNo, lineLen, completion,
                   scoreVars, scores, input, expect, middle_score, fault>>

\* Leaving the character loop (exhausted, or by break):
\* if !corrupted { completion_string; calculate_score; scores.push(score) }
EndLine ==
    /\ pc = "scan"
    /\ corrupted \/ Len(line) = lineLen
    /\ expect' = Append(expect, TextVerdict(line))
    /\ IF corrupted
       THEN /\ pc' = "loop"
            /\ UNCHANGED <<completion, scores, fault>>
       ELSE LET c == completion_string(stack)
                r == calculate_score(c, overflow_checks)
            IN  /\ completion' = c
                /\ IF r.fault = "none"
                   THEN /\ scores' = Append(scores, r.score)
                        /\ pc' = "loop"
                        /\ UNCHANGED fault
                   ELSE /\ fault' = r.fault
                        /\ pc' = "panic"
                        /\ UNCHANGED scores
    /\ UNCHANGED <<overflow_checks, nLines, lineNo, lineVars, scoreVars, input,
                   middle_score>>

\* After the last line: scores.sort(); find_median_score(&mut scores)
Finish ==
    /\ pc = "loop"
    /\ lineNo = nLines
    /\ LET r == find_median_score(sort(scores))
       IN  /\ scores' = r.scores
           /\ IF r.fault = "none"
              THEN /\ middle_score' = r.ret
                   /\ pc' = "done"
                   /\ UNCHANGED fault
              ELSE /\ fault' = r.fault
                   /\ pc' = "panic"
                   /\ UNCHANGED middle_score
    /\ UNCHANGED <<overflow_checks, nLines, lineNo, lineVars, completion,
                   scoreVars, input, expect>>

\* The state before anything ran.
InitParser ==
    /\ overflow_checks \in BOOLEAN
    /\ lineNo = 0
    /\ lineLen = 0
    /\ line = <<>>
    /\ before = <<>>
    /\ stack = <<>>
    /\ corrupted = FALSE
    /\ err = ""
    /\ expect = <<>>

InitScoring ==
    /\ completion = <<>>
    /\ score = I64Zero
    /\ exceededAt = 0
    /\ exceededOp = ""
    /\ middle_score = I64Zero
    /\ fault = "none"

InitRun ==
    /\ pc = "loop"
    /\ InitParser
    /\ InitScoring
    /\ scores = <<>>
    /\ input = <<>>

\* main on inputs of up to MaxLines lines over two bracket kinds.
Init == InitRun /\ nLines \in 0..MaxLines

Next ==
    \/ StartLine(MaxMainLineLen)
    \/ HandleChar(MainChars)
    \/ EndLine
    \/ Finish

Spec == Init /\ [][Next]_vars

\* main on a one-line input over all the characters.
InitLine == InitRun /\ nLines = 1

NextLine ==
    \/ StartLine(MaxLineLen)
    \/ HandleChar(Chars)
    \/ EndLine
    \/ Finish

SpecLine == InitLine /\ [][NextLine]_vars

\* ====================================================== calculate_score ====
\* The completion strings of the unit tests of calculate_score.
TestCompletions ==
    { <<>>, <<")">>, <<"]">>, <<"}">>, <<">">>,
      <<")", ">">>, <<"]", "}", ")">>, <<"}", ">">>,
      <<"}", "}", ">", "}", ">", ")", ")", ")", ")">>,
      <<"]", ")", "}", ">">> }

IsPrefix(p, s) == Len(p) <= Len(s) /\ SubSeq(s, 1, Len(p)) = p

\* The strings calculate_score is run on: the test strings, and every string
\* of up to MaxCompletionLen closing characters that repeats one character
\* after its first MaxFreeLen places.
Scorable(c) ==
    \/ \E t \in TestCompletions : IsPrefix(c, t)
    \/ /\ Len(c) <= MaxCompletionLen
       /\ \A i \in (MaxFreeLen + 2)..Len(c) : c[i] = c[MaxFreeLen + 1]

\* for ch in completion.chars() { score *= 5; score += match ch {...} }
\* completion holds the characters consumed so far.
CalcStep ==
    /\ pc = "score"
    /\ \E ch \in {c \in ClosingChars : Scorable(Append(completion, c))} :
        LET r == ScoreStep(score, ch, overflow_checks)
            mul == MulAdd(score, 5, 0)
            add == MulAdd(mul.val, 1, CharValue(ch))
        IN  /\ completion' = Append(completion, ch)
            /\ score' = r.score
            /\ fault' = r.fault
            /\ pc' = IF r.fault = "none" THEN "score" ELSE "panic"
            /\ IF exceededAt = 0 /\ (mul.overflow \/ add.overflow)
               THEN /\ exceededAt' = Len(completion) + 1
                    /\ exceededOp' = IF mul.overflow THEN "mul" ELSE "add"
               ELSE UNCHANGED <<exceededAt, exceededOp>>
    /\ UNCHANGED <<overflow_checks, nLines, lineNo, lineVars, scores, input,
                   expect, middle_score>>

\* The string ends here: calculate_score returns the running total.
CalcReturn ==
    /\ pc = "score"
    /\ pc' = "returned"
    /\ UNCHANGED <<overflow_checks, nLines, lineNo, lineVars, completion,
                   scoreVars, scores, input, expect, middle_score, fault>>

InitScore ==
    /\ pc = "score"
    /\ nLines = 0
    /\ InitParser
    /\ InitScoring
    /\ scores = <<>>
    /\ input = <<>>

NextScore == CalcStep \/ CalcReturn

SpecScore == InitScore /\ [][NextScore]_vars

\* ==================================================== find_median_score ====
\* -1
I64MinusOne == <<LimbBase - 1, LimbBase - 1, LimbBase - 1, LimbBase - 1>>

ScorePool == {ToI64(n) : n \in 0..MaxScoreVal} \cup {I64MinusOne}

RECURSIVE SeqsUpTo(_, _)
SeqsUpTo(S, n) ==
    IF n = 0
    THEN {<<>>}
    ELSE LET shorter == SeqsUpTo(S, n - 1)
         IN  shorter \cup {Append(q, x) : q \in shorter, x \in S}

\* find_median_score(&mut scores)
CallFindMedian ==
    /\ pc = "median"
    /\ LET r == find_median_score(scores)
       IN  /\ scores' = r.scores
           /\ middle_score' = r.ret
           /\ fault' = r.fault
           /\ pc' = IF r.fault = "none" THEN "done" ELSE "panic"
    /\ UNCHANGED <<overflow_checks, nLines, lineNo, lineVars, completion,
                   scoreVars, input, expect>>

InitMedian ==
    /\ pc = "median"
    /\ nLines = 0
    /\ InitParser
    /\ InitScoring
    /\ scores \in SeqsUpTo(ScorePool, MaxScores)
    /\ input = scores

NextMedian == CallFindMedian

SpecMedian == InitMedian /\ [][NextMedian]_vars

\* ======================================================== the unit tests ====
\* The loop of test_corrupted_lines: the error the scan of input stops at,
\* "" if it stops at none.
RECURSIVE ScanFor(_, _)
ScanFor(state, chars) ==
    IF chars = <<>>
    THEN [stack |-> state, error |-> ""]
    ELSE LET r == handle_closing_bracket(state, Head(chars))
         IN  IF r.result = "Ok"
             THEN ScanFor(handle_opening_bracket(r.stack, Head(chars)), Tail(chars))
             ELSE [stack |-> r.stack, error |-> r.result]

examples ==
    { <<<<"{", "(", "[", "(", "<", "{", "}", "[", "<", ">", "[", "]", "}", ">", "{", "[", "]", "{", "[", "(", "<", "(", ")", ">">>,
        "Expected ], but found } instead.">>,
      <<<<"[", "[", "<", "[", "(", "[", "]", ")", ")", "<", "(", "[", "[", "{", "}", "[", "[", "(", ")", "]", "]", "]">>,
        "Expected ], but found ) instead.">>,
      <<<<"[", "{", "[", "{", "(", "{", "}", "]", "{", "}", "}", "(", "[", "{", "[", "{", "{", "{", "}", "}", "(", "[", "]">>,
        "Expected ), but found ] instead.">>,
      <<<<"[", "<", "(", "<", "(", "<", "(", "<", "{", "}", ")", ")", ">", "<", "(", "[", "]", "(", "[", "]", "(", ")">>,
        "Expected >, but found ) instead.">>,
      <<<<"<", "{", "(", "[", "(", "[", "[", "(", "<", ">", "(", ")", ")", "{", "}", "]", ">", "(", "<", "<", "{", "{">>,
        "Expected ], but found > instead.">> }

test_corrupted_lines ==
    \A ex \in examples : ScanFor(new, ex[1]).error = ex[2]

\* =============================================================== claims ====
\* The closing character of each kind, as a table.
Closers == {<<"Round", ")">>, <<"Square", "]">>, <<"Curly", "}">>, <<"Angle", ">">>}
CloserOf(kind) == CHOOSE c \in ClosingChars : <<kind, c>> \in Closers
OpenerKinds == {<<"(", "Round">>, <<"[", "Square">>, <<"{", "Curly">>, <<"<", "Angle">>}
KindOfOpener(ch) == CHOOSE k \in Brackets : <<ch, k>> \in OpenerKinds

\* The current line has left the character loop.
LineFinished == pc # "scan" /\ lineNo >= 1

\* The stack as it was after line[i] was handled.
After(i) == IF i < Len(line) THEN before[i + 1] ELSE stack

\* ch is a closing character that finds s empty or topped by another kind.
Mismatch(s, ch) ==
    /\ ch \in ClosingChars
    /\ s = <<>> \/ <<Last(s), ch>> \notin Closers

MessageFor(s, ch) ==
    IF s = <<>>
    THEN "Expected opening bracket, but found " \o ch \o " instead."
    ELSE "Expected " \o CloserOf(Last(s)) \o ", but found " \o ch \o " instead."

\* C1: scanning from an empty stack, the closing handler returns an error at,
\* and only at, the first closing character that meets an empty stack or a
\* top of another kind; the message names the closing character of the top
\* as it was before the pop (or "opening bracket" on an empty stack) and the
\* character met.  The five lines of test_corrupted_lines give their messages.
C1_ErrorAtFirstMismatch ==
    /\ \A i \in 1..Len(line) :
          Mismatch(before[i], line[i]) <=> (corrupted /\ i = Len(line))
    /\ corrupted => err = MessageFor(before[Len(line)], line[Len(line)])
    /\ ~corrupted => err = ""
    /\ line = <<"[", "}">> => err = "Expected ], but found } instead."
    /\ line = <<"<", "(", ">">> => err = "Expected ), but found > instead."
    /\ line = <<")">> => err = "Expected opening bracket, but found ) instead."
    /\ test_corrupted_lines

C1_Witness ==
    /\ corrupted
    /\ line = <<"{", "[", "]", ">">>
    /\ err = "Expected }, but found > instead."

\* C3: for a line scanned without corruption, completion_string has one
\* closing character per bracket on the stack, top of the stack first, each
\* the closing character of that bracket's kind; scanning on over it gives
\* no error and empties the stack.
C3_CompletionClosesStack ==
    (LineFinished /\ ~corrupted /\ fault = "none") =>
        /\ Len(completion) = Len(stack)
        /\ \A i \in 1..Len(stack) :
              <<stack[Len(stack) + 1 - i], completion[i]>> \in Closers
        /\ ScanFor(stack, completion) = [stack |-> <<>>, error |-> ""]

C3_Witness ==
    /\ LineFinished
    /\ ~corrupted
    /\ stack = <<"Round", "Angle", "Square">>
    /\ completion = <<"]", ">", ")">>

\* A text of validly nested, fully closed brackets: brackets only, and
\* cancelling adjacent matching pairs leaves nothing.
Balanced(text) == OnlyBrackets(text) = text /\ Cancel(text) = <<>>

\* C6: a line of validly nested, fully closed brackets is scanned without
\* error, leaves the stack and the completion string empty and scores 0; an
\* opening bracket immediately followed by its closing character leaves the
\* stack as it was before the opening bracket.
C6_BalancedLineScoresZero ==
    /\ (LineFinished /\ Len(line) = lineLen /\ Balanced(line)) =>
          /\ ~corrupted
          /\ stack = <<>>
          /\ completion = <<>>
          /\ scores = <<I64Zero>>
    /\ \A i \in 1..(Len(line) - 1) :
          <<line[i], line[i + 1]>> \in Matching =>
              /\ ~(corrupted /\ i + 1 = Len(line))
              /\ After(i + 1) = before[i]

C6_Witness ==
    /\ LineFinished
    /\ line = <<"(", "{", "}", ")">>
    /\ scores = <<I64Zero>>

\* The kinds of the opening brackets of a text that no matching closing
\* character has closed, in the order they were opened.
Unclosed(text) ==
    LET open == SelectSeq(Residue(text), LAMBDA ch : ch \in OpeningChars)
    IN  [i \in 1..Len(open) |-> KindOfOpener(open[i])]

\* C8: after every character handled, error or not, the stack holds exactly
\* the kinds of the opening brackets met so far that no matching closing
\* character has closed, in the order they were opened; a character that is
\* no bracket leaves the stack unchanged and is handled without error.
C8_StackIsUnclosed ==
    /\ stack = Unclosed(line)
    /\ \A i \in 1..Len(line) :
          line[i] \notin OpeningChars \cup ClosingChars =>
              /\ After(i) = before[i]
              /\ ~(corrupted /\ i = Len(line))

\* The scores the finished lines call for, in line order, corrupted lines
\* left out.
ExpectedScores == SelectSeq(expect, LAMBDA v : v # "corrupted")

\* main ended: it reported a middle score, or panicked on the empty collection.
MainEnded == pc = "done" \/ (pc = "panic" /\ fault = "index out of bounds")

C5_State ==
    /\ (pc = "scan" /\ line = <<>>) => (stack = <<>> /\ ~corrupted)
    /\ pc = "loop" => (Len(expect) = lineNo /\ scores = ExpectedScores)
    /\ MainEnded => (lineNo = nLines /\ Len(expect) = nLines
                     /\ Len(scores) = Len(ExpectedScores))

C5_Step ==
    (pc = "scan" /\ corrupted) =>
        (pc' = "loop" /\ line' = line /\ stack' = stack /\ scores' = scores
         /\ lineNo' = lineNo)

\* C5: every line starts from a fresh empty stack; once a line's scan has
\* returned an error no further character of it is handled and it adds no
\* score; the later lines are still processed; when main ends the collection
\* holds one score per non-corrupted line (0 for a balanced line), appended
\* in line order before the sort.
C5_LinesIndependent == []C5_State /\ [][C5_Step]_vars

C5_Witness ==
    /\ pc = "done"
    /\ nLines = 2
    /\ expect = <<"corrupted", ToI64(11)>>
    /\ line = <<"(", "[">>
    /\ scores = <<ToI64(11)>>

\* C10: with no line, or only corrupted lines, the collection is empty and
\* find_median_score panics on index 0 instead of reporting; otherwise what
\* it reports is an element of the collection.
C10_MedianOfEmptyPanics ==
    (pc = "done" \/ pc = "panic") =>
        /\ (nLines = 0 \/ \A i \in 1..Len(expect) : expect[i] = "corrupted")
              <=> (scores = <<>> /\ pc = "panic" /\ fault = "index out of bounds")
        /\ scores = <<>> => pc = "panic"
        /\ pc = "done" => \E i \in 1..Len(scores) : scores[i] = middle_score

C10_Witness ==
    /\ pc = "panic"
    /\ fault = "index out of bounds"
    /\ nLines = 2
    /\ expect = <<"corrupted", "corrupted">>

\* ------------------------------------------------- exact integers ----
Weights == {<<")", 1>>, <<"]", 2>>, <<"}", 3>>, <<">", 4>>}
WeightOf(ch) == CHOOSE w \in 1..4 : <<ch, w>> \in Weights

\* A completion string read as a number in base 5 with the digits 1..4 is
\* compared with an i64 six digits at a time: in base 5^6.
ChunkBase == 5^6

\* Quotient and remainder of a non-negative i64 by a small number.
DivMod(x, m) ==
    LET t1 == x[1]
        t2 == (t1 % m) * LimbBase + x[2]
        t3 == (t2 % m) * LimbBase + x[3]
        t4 == (t3 % m) * LimbBase + x[4]
    IN  [q |-> <<t1 \div m, t2 \div m, t3 \div m, t4 \div m>>, r |-> t4 % m]

\* Digit k (0 the lowest) of x in base ChunkBase.
RECURSIVE ChunkDigit(_, _)
ChunkDigit(x, k) ==
    IF k = 0
    THEN DivMod(x, ChunkBase).r
    ELSE ChunkDigit(DivMod(x, ChunkBase).q, k - 1)

\* What digit k must be for the string c: the value of its k-th group of six
\* characters counted from the right, 0 past its left end.
ChunkOf(c, k) ==
    LET hi == Len(c) - 6 * k
        lo == IF hi > 6 THEN hi - 5 ELSE 1
    IN  SumOver([i \in lo..hi |-> WeightOf(c[i]) * Power5(hi - i)], lo..hi)

\* The i64 x is exactly the value of the string c.  An i64 has five digits
\* in base 5^6, so no string of more than thirty characters has one.
IsValueOf(x, c) ==
    /\ ~IsNegative(x)
    /\ Len(c) <= 5 * 6
    /\ \A k \in 0..4 : ChunkDigit(x, k) = ChunkOf(c, k)

\* x < 5^n, digit by digit in base 5^6.
BelowPower5(x, n) ==
    /\ ~IsNegative(x)
    /\ \A k \in 0..4 :
          /\ k > n \div 6 => ChunkDigit(x, k) = 0
          /\ k = n \div 6 => ChunkDigit(x, k) < Power5(n % 6)

\* Non-negative integers of up to 96 bits as six 16-bit limbs, least
\* significant first.
ExactOne == <<1, 0, 0, 0, 0, 0>>
\* 2^63
ExactTwoTo63 == <<0, 0, 0, SignLimb, 0, 0>>

RECURSIVE ExactTimes(_, _, _)
ExactTimes(x, m, carry) ==
    IF x = <<>>
    THEN <<>>
    ELSE LET t == Head(x) * m + carry
         IN  <<t % LimbBase>> \o ExactTimes(Tail(x), m, t \div LimbBase)

ExactLess(x, y) ==
    \E i \in 1..Len(x) : x[i] < y[i] /\ \A j \in (i + 1)..Len(x) : x[j] = y[j]

RECURSIVE ExactPower5(_)
ExactPower5(n) == IF n = 0 THEN ExactOne ELSE ExactTimes(ExactPower5(n - 1), 5, 0)

\* 5^27 = 7450580596923828125
FiveTo27 == ExactPower5(27)

\* The exact integer a non-negative i64 stands for; <<>>, which is none, for
\* a negative one.
Exact(x) == IF IsNegative(x) THEN <<>> ELSE <<x[4], x[3], x[2], x[1], 0, 0>>

\* calculate_score returned, and returned the exact value of the string.
ReturnsExactValue ==
    /\ pc # "panic"
    /\ pc = "returned" => IsValueOf(score, completion)

\* C2 as stated: for every completion string over the four closing
\* characters calculate_score returns the total of multiplying by 5 and
\* adding 1, 2, 3, 4 for ) ] } > from left to right.
C2_ScoreOfEveryString == ReturnsExactValue

\* C2 as amended: the same for every completion string of at most 27
\* characters; the empty string scores 0, "])}>" 294, "}}>}>))))" 1480781.
C2_ScoreUpTo27 ==
    Len(completion) <= 27 =>
        /\ ReturnsExactValue
        /\ pc = "returned" =>
              /\ completion = <<>> => score = I64Zero
              /\ completion = <<"]", ")", "}", ">">> => score = ToI64(294)
              /\ completion = <<"}", "}", ">", "}", ">", ")", ")", ")", ")">>
                    => score = ToI64(1480781)

C2_Witness ==
    /\ pc = "returned"
    /\ completion = <<"}", "}", ">", "}", ">", ")", ")", ")", ")">>
    /\ score = ToI64(1480781)

\* C9: for up to 27 characters no operation leaves the i64 range and the
\* total stays at or below 5^n - 1 <= 2^63 - 1; from 28 characters on, the
\* multiplication by 5 of the 28th turn is the first to exceed 2^63 - 1
\* (a panic where overflow is checked, a wrong total where it is not).
C9_OverflowFrom28 ==
    /\ FiveTo27 = <<1949, 64016, 51091, 26469, 0, 0>>
    /\ ExactLess(FiveTo27, ExactTwoTo63)
    /\ Len(completion) <= 27 =>
          /\ exceededAt = 0
          /\ fault = "none"
          /\ IsValueOf(score, completion)
          /\ BelowPower5(score, Len(completion))
    /\ Len(completion) = 27 =>
          ~ExactLess(ExactTimes(Exact(score), 5, 0), ExactTwoTo63)
    /\ Len(completion) >= 28 =>
          /\ exceededAt = 28
          /\ exceededOp = "mul"
          /\ IF overflow_checks
             THEN pc = "panic" /\ fault = "attempt to multiply with overflow"
             ELSE pc # "panic" /\ ~IsValueOf(score, completion)

C9_Witness ==
    /\ completion = [i \in 1..28 |-> ")"]
    /\ exceededAt = 28
    /\ pc = "panic"

\* ------------------------------------------------------- median claims ----
\* The integer of an i64 of the score pool.
IntOf(x) == IF IsNegative(x) THEN x[4] - LimbBase ELSE x[3] * LimbBase + x[4]

Occurrences(q, x) == Cardinality({i \in 1..Len(q) : q[i] = x})

\* find_median_score returned a value for the collection it was handed.
MedianReturned == pc = "done" /\ Len(input) >= 1

\* C4: a non-empty collection in any order is sorted ascending and the
\* element at 0-based index len / 2 of the sorted order is returned; for an
\* odd length it is the median: as many elements at or below it before it as
\* at or above it after it.
C4_MiddleOfSorted ==
    /\ (pc # "median" /\ Len(input) >= 1) => pc = "done"
    /\ MedianReturned =>
          LET n == Len(scores)
              m == (n \div 2) + 1
          IN  /\ n = Len(input)
              /\ \A x \in ScorePool : Occurrences(scores, x) = Occurrences(input, x)
              /\ \A i \in 1..(n - 1) : IntOf(scores[i]) <= IntOf(scores[i + 1])
              /\ middle_score = scores[m]
              /\ n % 2 = 1 =>
                    /\ Cardinality(1..(m - 1)) = Cardinality((m + 1)..n)
                    /\ \A i \in 1..(m - 1) : IntOf(scores[i]) <= IntOf(middle_score)
                    /\ \A i \in (m + 1)..n : IntOf(scores[i]) >= IntOf(middle_score)

C4_Witness ==
    /\ MedianReturned
    /\ input = <<ToI64(2), I64MinusOne, ToI64(1)>>
    /\ scores = <<I64MinusOne, ToI64(1), ToI64(2)>>
    /\ middle_score = ToI64(1)

\* The two central elements of an even-length sorted collection.
LowerCentral == scores[Len(scores) \div 2]
UpperCentral == scores[(Len(scores) \div 2) + 1]

EvenReturned == MedianReturned /\ Len(input) % 2 = 0

\* C7 as stated: for an even length (at least 2) the value reported is the
\* lower-middle, the smaller of the two central elements of the sorted order.
C7_LowerMiddle ==
    EvenReturned =>
        /\ middle_score = LowerCentral
        /\ IntOf(middle_score) <= IntOf(UpperCentral)

\* C7 as amended: for an even length (at least 2) the value reported is the
\* upper-middle, the larger of the two central elements of the sorted order.
C7_UpperMiddle ==
    EvenReturned =>
        /\ middle_score = UpperCentral
        /\ IntOf(middle_score) >= IntOf(LowerCentral)

C7_Witness ==
    /\ EvenReturned
    /\ input = <<ToI64(3), ToI64(0), ToI64(2), ToI64(1)>>
    /\ middle_score = ToI64(2)

====
